---- MODULE Spec2Model ----
(***************************************************************************)
(* A model of fits_schema: the diagnostic policy (utils.log_or_raise), the *)
(* column schema and its data validation (binary_table.Column), the table  *)
(* instance (binary_table.BinaryTable), the header card schema and the     *)
(* header walk (header.HeaderCard, header.HeaderSchema) and the schema     *)
(* composition done by the two metaclasses.                                *)
(***************************************************************************)
EXTENDS Integers, Sequences, FiniteSets, TLC

VARIABLES
    onerror,    \* the mode argument of the running / last call
    pc,         \* the position of the running call
    column,     \* the Column descriptor validate_data is called on
    value,      \* the data argument of Column.validate_data
    result,     \* the outcome of the running / last call: [findings, exc, ret]
    args,       \* the arguments of the definition, statement or call under way
    card,       \* the HeaderCard that was defined
    actual,     \* the file's card handed to HeaderCard.validate
    pos,        \* the position handed to HeaderCard.validate
    classes,    \* the schema classes defined so far, in definition order
    hdu,        \* the file's HDU under validation: its header and its columns
    checked,    \* the cards and columns handed to their schema so far
    instance    \* a BinaryTable instance: its schema and its data store

vars == <<onerror, pc, column, value, result, args, card, actual, pos, classes, hdu, checked, instance>>

Idle == "idle"

----------------------------------------------------------------------------
(* Bounds of the model *)

\* largest rank (number of axes) of a data value
MaxRank == 2

\* longest string value of a header card
MaxStrLen == 3

\* largest number of declarations in the body of a schema class
MaxOwn == 2

----------------------------------------------------------------------------
(* utils.log_or_raise and the exception taxonomy *)

NoExc == "none"

\* the kinds that derive from UserWarning
Advisory == {"AdditionalHeaderCard"}

Modes == {"raise", "log", "invalid"}

\* a run is the trace of one call: the findings reported so far, in order,
\* and the exception that ended it (NoExc while it is still running)
NewRun == [findings |-> <<>>, exc |-> NoExc]

Finding(kind, via, src, keywords, names, at) ==
    [kind |-> kind, via |-> via, src |-> src,
     keywords |-> keywords, names |-> names, at |-> at]

\* a mutant of log_or_raise: log mode drops the message
log_or_raise_Silent(run, kind, src, keywords, names, at, mode) ==
    IF run.exc # NoExc THEN run
    ELSE IF mode = "raise"
    THEN IF kind \in Advisory
         THEN [run EXCEPT !.findings =
                   Append(@, Finding(kind, "warn", src, keywords, names, at))]
         ELSE [run EXCEPT !.findings =
                   Append(@, Finding(kind, "raise", src, keywords, names, at)),
                          !.exc = kind]
    ELSE IF mode = "log" THEN run
    ELSE [run EXCEPT !.exc = "ValueError"]

\* log_or_raise(msg, exc_type, log, onerror), threaded through the run of
\* the caller: a call after the caller was left by an exception never happens
log_or_raise(run, kind, src, keywords, names, at, mode) ==
    IF run.exc # NoExc THEN run
    ELSE IF mode = "raise"
    THEN IF kind \in Advisory
         THEN [run EXCEPT !.findings =
                   Append(@, Finding(kind, "warn", src, keywords, names, at))]
         ELSE [run EXCEPT !.findings =
                   Append(@, Finding(kind, "raise", src, keywords, names, at)),
                          !.exc = kind]
    ELSE IF mode = "log"
    THEN IF kind \in Advisory
         THEN [run EXCEPT !.findings =
                   Append(@, Finding(kind, "log.warning", src, keywords, names, at))]
         ELSE [run EXCEPT !.findings =
                   Append(@, Finding(kind, "log.error", src, keywords, names, at))]
    ELSE [run EXCEPT !.exc = "ValueError"]

Kinds(fs) == [i \in 1..Len(fs) |-> fs[i].kind]

----------------------------------------------------------------------------
(* Data values: what a caller can hand to Column.validate_data *)

\* physical units of the unit library, with their dimension and their scale
\* relative to the smallest unit of that dimension
NoUnit == "none"
Units == {"m", "cm", "deg", "one"}

Dimension(unit) ==
    CASE unit = "m" -> "length"
      [] unit = "cm" -> "length"
      [] unit = "deg" -> "angle"
      [] unit = "one" -> "dimensionless"

Scale(unit) == IF unit = "m" THEN 100 ELSE 1

\* element types
DTypes == {"bool", "int16", "int64", "float64"}
IsIntDType(dtype) == dtype \in {"int16", "int64"}

Abs(n) == IF n < 0 THEN -n ELSE n

RECURSIVE GCD(_, _)
GCD(a, b) == IF b = 0 THEN a ELSE GCD(b, a % b)

\* a magnitude is the fraction n/d in lowest terms, d > 0
Fraction(n, d) ==
    LET g == GCD(Abs(n), d) IN [n |-> n \div g, d |-> d \div g]

\* None, and a value: its container (py: a Python scalar or nested list, nd:
\* an ndarray, q: a Quantity, col: a table column read from a file), element
\* type, the magnitude n/d of its elements, shape and unit tag
None == [cont |-> "none", dtype |-> "object", n |-> 0, d |-> 1,
         shape |-> <<>>, unit |-> NoUnit]

Val(cont, dtype, n, d, shape, unit) ==
    [cont |-> cont, dtype |-> dtype, n |-> n, d |-> d,
     shape |-> shape, unit |-> unit]

Rank(v) == Len(v.shape)

\* getattr: only arrays have ndim, only quantities and table columns a unit
HasNdim(v) == v.cont \in {"nd", "q", "col"}
HasUnit(v) == v.cont \in {"q", "col"}

----------------------------------------------------------------------------
(* binary_table.Column *)

NoNdim == -1
NoShape == [given |-> FALSE, dims |-> <<>>]
Shape(dims) == [given |-> TRUE, dims |-> dims]

\* Column.__init__: ndim follows from shape when only shape is given, a
\* column without either is a column of scalars; error stands for the
\* ValueError of a shape and ndim that do not match
Column(name, dtype, unit, strict_unit, required, ndim, shape) ==
    [name |-> name, dtype |-> dtype, unit |-> unit,
     strict_unit |-> strict_unit, required |-> required,
     shape |-> shape,
     ndim |-> IF shape.given
              THEN (IF ndim = NoNdim THEN Len(shape.dims) ELSE ndim)
              ELSE (IF ndim = NoNdim THEN 0 ELSE ndim),
     error |-> shape.given /\ ndim # NoNdim /\ ndim # Len(shape.dims)]

\* numpy.can_cast(from, to, casting='safe') on element types
can_cast(from, to) ==
    CASE from = "bool" -> TRUE
      [] from = "int16" -> to \in {"int16", "int64", "float64"}
      [] from = "int64" -> to \in {"int64", "float64"}
      [] from = "float64" -> to = "float64"
      [] OTHER -> FALSE

Int16Min == -32768
Int16Max == 32767

\* the safe cast of a zero-dimensional array goes by its value: the smallest
\* element type that holds the value has to cast safely
can_cast_scalar(v, to) ==
    \/ can_cast(v.dtype, to)
    \/ /\ IsIntDType(v.dtype)
       /\ to = "int16"
       /\ Int16Min <= v.n /\ v.n <= Int16Max

\* a mutant of astype_ok: the value of a scalar is not looked at
astype_ok_ByType(v, dtype) ==
    v.cont # "none" /\ can_cast(v.dtype, dtype)

\* whether np.asanyarray(data).astype(dtype, casting='safe') succeeds; None
\* becomes an array of objects, which casts to nothing
astype_ok(v, dtype) ==
    /\ v.cont # "none"
    /\ IF Rank(v) = 0 THEN can_cast_scalar(v, dtype) ELSE can_cast(v.dtype, dtype)

\* np.asanyarray(data).astype(dtype, casting='safe'): a Python value becomes
\* an ndarray, an array subclass stays what it is
astype(v, dtype) ==
    [v EXCEPT !.cont = IF @ = "py" THEN "nd" ELSE @, !.dtype = dtype]

Truncate(n, d) == IF n >= 0 THEN n \div d ELSE -((-n) \div d)
Wrap16(x) == ((x - Int16Min) % 65536) + Int16Min

\* the magnitude after the unchecked cast Quantity(..., dtype=...) does
Cast(n, d, dtype) ==
    CASE dtype = "float64" -> Fraction(n, d)
      [] dtype = "int64" -> Fraction(Truncate(n, d), 1)
      [] dtype = "int16" -> Fraction(Wrap16(Truncate(n, d)), 1)
      [] dtype = "bool" -> Fraction(IF n = 0 THEN 0 ELSE 1, 1)

ValueUnit(v) == IF HasUnit(v) THEN v.unit ELSE NoUnit

\* u.Quantity(data, unit) raises UnitConversionError unless this holds
Convertible(v, unit) ==
    \/ unit = NoUnit
    \/ ValueUnit(v) = NoUnit
    \/ Dimension(ValueUnit(v)) = Dimension(unit)

Ones(k) == [i \in 1..k |-> 1]

\* a mutant of Quantity: the unit tag is replaced, the magnitude is kept
Quantity_Relabel(v, unit, ndmin, dtype) ==
    LET m == Cast(v.n, v.d, dtype)
    IN  Val("q", dtype, m.n, m.d,
            IF Rank(v) < ndmin THEN Ones(ndmin - Rank(v)) \o v.shape ELSE v.shape,
            IF unit # NoUnit THEN unit
            ELSE IF ValueUnit(v) = NoUnit THEN "one" ELSE ValueUnit(v))

\* u.Quantity(data, unit, copy=False, ndmin=ndmin, dtype=dtype) for a
\* convertible value: leading axes of length one are added up to ndmin and
\* the elements are cast without a check. A Quantity in another unit is
\* converted first and cast after, so it keeps the element type asked for;
\* a table column in another unit is cast first and converted after, which
\* leaves floating point elements
Quantity(v, unit, ndmin, dtype) ==
    LET vu == ValueUnit(v)
        converts == unit # NoUnit /\ vu # NoUnit /\ vu # unit
        isQuantity == v.cont = "q"
        m == Cast(v.n, v.d, dtype)
        c == IF ~converts THEN m
             ELSE IF isQuantity
             THEN Cast(v.n * Scale(vu), v.d * Scale(unit), dtype)
             ELSE Fraction(m.n * Scale(vu), m.d * Scale(unit))
    IN  Val("q",
            IF converts /\ ~isQuantity THEN "float64" ELSE dtype,
            c.n, c.d,
            IF Rank(v) < ndmin THEN Ones(ndmin - Rank(v)) \o v.shape ELSE v.shape,
            IF unit # NoUnit THEN unit
            ELSE IF vu = NoUnit THEN "one" ELSE vu)

Tail1(s) == IF Len(s) = 0 THEN <<>> ELSE Tail(s)

\* a mutant of wrong_dims: no exception for a bare scalar
wrong_dims_NoScalar(rank, ndim) == rank # ndim + 1

\* the rank test: a table has one axis more than its rows, and a single
\* scalar is allowed for rows of scalars
wrong_dims(rank, ndim) ==
    rank # ndim + 1 /\ ~(rank = 0 /\ ndim = 0)

\* a mutant of wrong_shape: the row axis is compared too
wrong_shape_AllAxes(shape, qshape) ==
    shape.given /\ shape.dims # qshape

\* the shape test on q.shape[1:]
wrong_shape(shape, qshape) ==
    shape.given /\ shape.dims # Tail1(qshape)

\* a mutant of strict_mismatch: strictness is ignored
strict_mismatch_Never(col, v) == FALSE

\* the strict unit test: any value that has a unit attribute is compared
strict_mismatch(col, v) ==
    col.strict_unit /\ HasUnit(v) /\ v.unit # col.unit

ColFinding(run, kind, col, mode) ==
    log_or_raise(run, kind, "column", {}, {col.name}, 0, mode)

Returned(run, ret) ==
    [findings |-> run.findings, exc |-> run.exc,
     ret |-> IF run.exc = NoExc THEN ret ELSE None]

\* Column.validate_data(data, onerror)
Column_validate_data(col, data, mode) ==
    LET missing == data = None
        r1 == IF missing /\ col.required
              THEN ColFinding(NewRun, "RequiredMissing", col, mode)
              ELSE NewRun
        castOk == astype_ok(data, col.dtype)
        d2 == IF castOk THEN astype(data, col.dtype) ELSE data
        r2 == IF castOk THEN r1 ELSE ColFinding(r1, "WrongType", col, mode)
        r3 == IF strict_mismatch(col, d2)
              THEN ColFinding(r2, "WrongUnit", col, mode)
              ELSE r2
        \* data.ndim: an AttributeError for what is still a Python value
        r4 == IF r3.exc # NoExc THEN r3
              ELSE IF ~HasNdim(d2) THEN [r3 EXCEPT !.exc = "AttributeError"]
              ELSE IF wrong_dims(Rank(d2), col.ndim)
              THEN ColFinding(r3, "WrongDims", col, mode)
              ELSE r3
        convOk == Convertible(d2, col.unit)
        r5 == IF convOk THEN r4 ELSE ColFinding(r4, "WrongUnit", col, mode)
        q == Quantity(d2, col.unit, col.ndim + 1, col.dtype)
        \* q.shape: q was never bound when the conversion failed
        r6 == IF r5.exc # NoExc THEN r5
              ELSE IF ~convOk THEN [r5 EXCEPT !.exc = "UnboundLocalError"]
              ELSE IF wrong_shape(col.shape, q.shape)
              THEN ColFinding(r5, "WrongShape", col, mode)
              ELSE r5
    IN  IF missing /\ ~col.required
        THEN Returned(NewRun, None)
        ELSE Returned(r6, q)

----------------------------------------------------------------------------
(* The inputs of Column.validate_data *)

Dims == {3, 10}
Shapes == UNION {[1..k -> Dims] : k \in 0..MaxRank}

\* magnitudes n/d in lowest terms, by element type
Magnitudes(cont, dtype) ==
    CASE dtype = "bool" -> {<<1, 1>>}
      [] dtype = "int16" -> {<<1, 1>>}
      [] dtype = "int64" ->
            IF cont = "py"
            THEN {<<Int16Min - 1, 1>>, <<Int16Min, 1>>, <<1, 1>>,
                  <<Int16Max, 1>>, <<Int16Max + 1, 1>>}
            ELSE {<<1, 1>>, <<Int16Max + 1, 1>>}
      [] dtype = "float64" ->
            IF cont \in {"py", "q"} THEN {<<157, 50>>, <<5, 1>>} ELSE {<<157, 50>>}

ContDTypes(cont) ==
    CASE cont = "py" -> {"bool", "int64", "float64"}
      [] cont = "nd" -> DTypes
      [] cont = "q" -> {"int16", "float64"}
      [] cont = "col" -> {"int16", "int64", "float64"}

ContUnits(cont) ==
    CASE cont = "py" -> {NoUnit}
      [] cont = "nd" -> {NoUnit}
      [] cont = "q" -> {"m", "cm", "deg"}
      [] cont = "col" -> {NoUnit, "m", "cm", "deg"}

\* a table column read from a file has at least the row axis
ContShapes(cont) ==
    IF cont = "col" THEN {shape \in Shapes : Len(shape) >= 1} ELSE Shapes

Values ==
    UNION { UNION { UNION {
        { Val(cont, dtype, m[1], m[2], shape, unit) :
            m \in Magnitudes(cont, dtype), shape \in ContShapes(cont) }
        : unit \in ContUnits(cont) }
        : dtype \in ContDTypes(cont) }
        : cont \in {"py", "nd", "q", "col"} }

ColumnShapes ==
    { <<NoNdim, NoShape>>, <<NoNdim, Shape(<<>>)>>, <<NoNdim, Shape(<<10>>)>>,
      <<1, NoShape>>, <<2, NoShape>> }

Columns ==
    { Column("test", dtype, unit, strict, required, s[1], s[2]) :
        dtype \in {"int16", "float64"}, unit \in {NoUnit, "m", "one"},
        strict \in BOOLEAN, required \in BOOLEAN, s \in ColumnShapes }

NotCalled == [findings |-> <<>>, exc |-> NoExc, ret |-> None]

----------------------------------------------------------------------------
(* SpecCol: one call of Column.validate_data on any column and any value *)

InitCol ==
    /\ onerror \in Modes
    /\ pc = "ready"
    /\ column \in Columns
    /\ value \in Values \cup {None}
    /\ result = NotCalled
    /\ args = Idle /\ card = Idle /\ actual = Idle /\ pos = 0
    /\ classes = <<>>
    /\ hdu = Idle /\ checked = <<>> /\ instance = Idle

CallColumnValidateData ==
    /\ pc = "ready"
    /\ pc' = "done"
    /\ result' = Column_validate_data(column, value, onerror)
    /\ UNCHANGED <<onerror, column, value, args, card, actual, pos, classes, hdu, instance, checked>>

NextCol == CallColumnValidateData

SpecCol == InitCol /\ [][NextCol]_vars

----------------------------------------------------------------------------
(* Properties of Column.validate_data *)

HasKind(fs, kind) == \E i \in 1..Len(fs) : fs[i].kind = kind
CountKind(fs, kind) == Cardinality({i \in 1..Len(fs) : fs[i].kind = kind})

ValidMode == onerror \in {"raise", "log"}
Done == pc = "done"

\* C2 (as claimed): for an absent value, in raise and in log mode, a required
\* column yields exactly the one finding RequiredMissing and an optional
\* column none; no other check reports, no other error ends the call and
\* nothing is returned to be stored
C2_AbsentValue ==
    (Done /\ ValidMode /\ value = None) =>
        /\ Kinds(result.findings) =
               (IF column.required THEN <<"RequiredMissing">> ELSE <<>>)
        /\ result.exc \in {NoExc, "RequiredMissing"}
        /\ result.ret = None

IntegerValued(v) == v # None /\ IsIntDType(v.dtype)
InInt16(v) == Int16Min <= v.n /\ v.n <= Int16Max
TypeRejected == HasKind(result.findings, "WrongType")

TypeOk(col, v) ==
    IF Rank(v) = 0
    THEN \/ v.dtype = "bool" \/ v.dtype = col.dtype
         \/ (IsIntDType(v.dtype) /\ col.dtype = "float64")
         \/ (IsIntDType(v.dtype) /\ col.dtype = "int16" /\ InInt16(v))
    ELSE \/ v.dtype = "bool" \/ v.dtype = col.dtype
         \/ (IsIntDType(v.dtype) /\ col.dtype = "float64")
RankOk(col, v) == Rank(v) = col.ndim + 1 \/ (Rank(v) = 0 /\ col.ndim = 0)
ShapeOk(col, v) == ~col.shape.given \/ col.shape.dims = Tail1(v.shape)

UnitTag(v) == IF v.cont \in {"q", "col"} THEN v.unit ELSE NoUnit
SameDimension(a, b) ==
    \/ {a, b} \subseteq {"m", "cm"}
    \/ a = b

\* the magnitude of v expressed in unit
InUnit(v, unit) ==
    IF UnitTag(v) = "cm" /\ unit = "m" THEN Fraction(v.n, v.d * 100)
    ELSE IF UnitTag(v) = "m" /\ unit = "cm" THEN Fraction(v.n * 100, v.d)
    ELSE Fraction(v.n, v.d)

\* C4 (as claimed): the unit outcome for a column with a declared unit U and
\* a value of acceptable type, rank and shape with unit tag V, in raise mode:
\* V = U succeeds; V convertible but different succeeds with the value in U
\* when not strict and is WrongUnit when strict; V not convertible is
\* WrongUnit; no unit tag succeeds and the stored value carries U
C4_UnitOutcome ==
    (/\ Done /\ onerror = "raise" /\ value # None /\ column.unit # NoUnit
     /\ TypeOk(column, value) /\ RankOk(column, value) /\ ShapeOk(column, value)) =>
        LET V == UnitTag(value)
            U == column.unit
            success == result.exc = NoExc /\ result.ret.unit = U
                       /\ result.ret.n = InUnit(value, U).n
                       /\ result.ret.d = InUnit(value, U).d
        IN  CASE V = NoUnit -> success
              [] V = U -> success
              [] V # U /\ V # NoUnit /\ SameDimension(V, U) ->
                    IF column.strict_unit
                    THEN result.exc = "WrongUnit"
                    ELSE success
              [] OTHER -> result.exc = "WrongUnit"

\* C5: for a value of acceptable type and unit, raise mode ends in WrongDims
\* iff the rank is not row_rank + 1 (a bare scalar for rows of scalars
\* excepted), else in WrongShape iff row_shape is declared and differs from
\* the axes after the row axis, else it accepts
C5_RankAndShape ==
    (/\ Done /\ onerror = "raise" /\ value # None
     /\ TypeOk(column, value)
     /\ (column.unit = NoUnit \/ UnitTag(value) = NoUnit
            \/ SameDimension(UnitTag(value), column.unit))
     /\ ~(column.strict_unit /\ value.cont \in {"q", "col"}
            /\ value.unit # column.unit)) =>
        IF ~RankOk(column, value) THEN result.exc = "WrongDims"
        ELSE IF ~ShapeOk(column, value) THEN result.exc = "WrongShape"
        ELSE result.exc = NoExc /\ result.ret # None

C5_Witness ==
    /\ Done /\ onerror = "raise"
    /\ column.shape = Shape(<<10>>)
    /\ value.shape = <<3, 3>>
    /\ result.exc = "WrongShape"

----------------------------------------------------------------------------
(* Header values: Python scalars as a header card holds them *)

\* a value: its type, its characters (str) and its number n/d (bool, int,
\* float)
PyVal(t, chars, n, d) == [t |-> t, s |-> chars, n |-> n, d |-> d]
PyStr(chars) == PyVal("str", chars, 0, 1)
PyInt(n) == PyVal("int", <<>>, n, 1)
PyBool(b) == PyVal("bool", <<>>, IF b THEN 1 ELSE 0, 1)
PyFloat(n, d) == PyVal("float", <<>>, n, d)
PyNone == PyVal("NoneType", <<>>, 0, 1)
Undefined == PyVal("Undefined", <<>>, 0, 1)
Tuple123 == PyVal("tuple", <<>>, 0, 1)

HEADER_ALLOWED_TYPES == {"str", "bool", "int", "float", "complex", "date", "datetime"}

\* issubclass on the types of header values
issubclass(a, b) ==
    \/ a = b
    \/ a = "bool" /\ b = "int"
    \/ a = "datetime" /\ b = "date"

\* isinstance(v, types) for a type or a tuple of types
isinstance(v, types) == \E t \in types : issubclass(v.t, t)

IsNumber(v) == v.t \in {"bool", "int", "float"}

\* Python's == on header values: numbers compare by value, across types
PyEq(a, b) ==
    IF IsNumber(a) /\ IsNumber(b) THEN a.n * b.d = b.n * a.d
    ELSE a.t = b.t /\ a.s = b.s

\* v in vals, for a set
PyIn(v, vals) == \E a \in vals : PyEq(v, a)

UpperChar(c) ==
    CASE c = "f" -> "F"
      [] c = "o" -> "O"
      [] OTHER -> c

\* str.upper()
upper(chars) == [i \in 1..Len(chars) |-> UpperChar(chars[i])]

\* v.upper() if isinstance(v, str) else v
UpperIfStr(v) == IF v.t = "str" THEN [v EXCEPT !.s = upper(@)] ELSE v

----------------------------------------------------------------------------
(* header.HeaderCard *)

\* a keyword: the part before its trailing digits, and the trailing digits
K(stem, digits) == [stem |-> stem, digits |-> digits]

NoPosition == -1

\* the type_ argument: absent, one type, or a collection of types given
\* as a tuple, a list or a set
NoType == [form |-> "none", types |-> {}]
OneType(t) == [form |-> "type", types |-> {t}]
TypeTuple(ts) == [form |-> "tuple", types |-> ts]
TypeList(ts) == [form |-> "list", types |-> ts]

\* the allowed_values argument: absent, one value, or a collection
NoValues == [form |-> "none", vals |-> {}]
OneValue(v) == [form |-> "scalar", vals |-> {v}]
ValueSet(vs) == [form |-> "iterable", vals |-> vs]

\* isinstance(type_, Iterable): a class is not iterable, a collection is
IsIterable(type_) == type_.form \in {"tuple", "list"}

\* the values as __init__ normalises them
NormalisedValues(allowed_values, case_insensitive) ==
    IF case_insensitive
    THEN {UpperIfStr(v) : v \in allowed_values.vals}
    ELSE allowed_values.vals

\* a mutant of type_mismatch: the type check is made against the
\* normalised self.type, which is a tuple for every collection
type_mismatch_Normalised(type_, vals) ==
    IF \E v \in vals : ~isinstance(v, type_.types)
    THEN "TypeError" ELSE NoExc

\* any(not isinstance(v, type_) for v in vals), on the type_ argument as
\* given: isinstance itself raises TypeError for a list of types
type_mismatch(type_, vals) ==
    IF vals = {} THEN NoExc
    ELSE IF type_.form = "list" THEN "TypeError"
    ELSE IF \E v \in vals : ~isinstance(v, type_.types) THEN "TypeError"
    ELSE NoExc

\* HeaderCard.__init__; exc is the error that ends the definition
HeaderCard(keyword, required, allowed_values, position, type_, empty, case_insensitive) ==
    LET given == allowed_values.form # "none"
        vals == NormalisedValues(allowed_values, case_insensitive)
        notAllowed == given /\ \E v \in vals : ~isinstance(v, HEADER_ALLOWED_TYPES)
        mismatch == IF type_.form # "none" /\ given
                    THEN type_mismatch(type_, vals)
                    ELSE NoExc
    IN  [keyword |-> keyword, required |-> required, position |-> position,
         empty |-> empty, case_insensitive |-> case_insensitive,
         type |-> IF type_.form # "none"
                  THEN [given |-> TRUE,
                        types |-> IF IsIterable(type_)
                                  THEN {t \in type_.types : TRUE}
                                  ELSE type_.types]
                  ELSE IF given
                  THEN [given |-> TRUE, types |-> {v.t : v \in vals}]
                  ELSE [given |-> FALSE, types |-> {}],
         allowed_values |-> [given |-> given, vals |-> vals],
         exc |-> IF notAllowed THEN "ValueError" ELSE mismatch]

CardFinding(run, kind, k, at, mode) ==
    log_or_raise(run, kind, "card", {k}, {}, at, mode)

\* a mutant of value_allowed: the file's value is compared as it is
value_allowed_Exact(c, v) == PyIn(v, c.allowed_values.vals)

\* the allowed-value test of HeaderCard.validate
value_allowed(c, v) ==
    PyIn(IF c.case_insensitive /\ v.t = "str" THEN UpperIfStr(v) ELSE v,
         c.allowed_values.vals)

has_value(v) == ~(v.t = "NoneType" \/ v.t = "Undefined")

\* HeaderCard.validate(card, pos, onerror), continuing the run of its caller
HeaderCard_validate(c, run, v, at, mode) ==
    LET k == c.keyword
        r1 == IF c.position # NoPosition /\ c.position # at
              THEN CardFinding(run, "WrongPosition", k, at, mode)
              ELSE run
        r2 == IF c.type.given /\ ~isinstance(v, c.type.types)
              THEN CardFinding(r1, "WrongType", k, at, mode)
              ELSE r1
        r3 == IF c.allowed_values.given /\ ~value_allowed(c, v)
              THEN CardFinding(r2, "WrongValue", k, at, mode)
              ELSE r2
        r4 == IF c.empty = "true" /\ has_value(v)
              THEN CardFinding(r3, "WrongValue", k, at, mode)
              ELSE r3
        r5 == IF c.empty = "false" /\ ~has_value(v)
              THEN CardFinding(r4, "WrongValue", k, at, mode)
              ELSE r4
    IN  r5

----------------------------------------------------------------------------
(* SpecCard: a HeaderCard is defined, and then validates cards of a file *)

Alphabet == {"f", "F", "o", "O"}
Strings == UNION {[1..k -> Alphabet] : k \in 0..MaxStrLen}

foo == <<"f", "o", "o">>
Foo == <<"F", "o", "o">>
FOO == <<"F", "O", "O">>

KW_TEST == K("TEST", <<>>)

TypeArgs ==
    { NoType, OneType("str"), OneType("int"), OneType("bool"), OneType("float"),
      TypeTuple({"str", "int"}), TypeList({"str", "int"}), TypeList({"str"}),
      TypeTuple({"float"}) }

AllowedArgs ==
    { NoValues, ValueSet({}), ValueSet({PyStr(foo)}), OneValue(PyStr(Foo)),
      ValueSet({PyStr(foo), PyStr(FOO)}), OneValue(PyInt(8)), ValueSet({PyBool(TRUE)}),
      ValueSet({PyStr(foo), PyInt(1)}), ValueSet({Tuple123}) }

CardValues ==
    {PyStr(chars) : chars \in Strings}
        \cup {PyInt(1), PyInt(8), PyBool(TRUE), PyFloat(8, 1), PyFloat(11, 2), PyNone, Undefined}

InitCard ==
    /\ onerror = "raise"
    /\ pc = "define"
    /\ args \in [allowed_values : AllowedArgs, type_ : TypeArgs,
                  case_insensitive : BOOLEAN, position : {NoPosition, 0},
                  empty : {"none", "true", "false"}]
    /\ card = Idle
    /\ actual = Idle /\ pos = 0
    /\ result = NotCalled
    /\ column = Idle /\ value = Idle
    /\ classes = <<>>
    /\ hdu = Idle /\ checked = <<>> /\ instance = Idle

\* TEST = HeaderCard(allowed_values=..., type_=..., ...)
DefineCard ==
    /\ pc = "define"
    /\ card' = HeaderCard(KW_TEST, TRUE, args.allowed_values, args.position,
                          args.type_, args.empty, args.case_insensitive)
    /\ pc' = IF card'.exc = NoExc THEN "defined" ELSE "failed"
    /\ UNCHANGED <<onerror, column, value, result, args, actual, pos, classes, hdu, instance, checked>>

\* TEST.validate(card, pos, onerror)
CallCardValidate ==
    /\ pc = "defined"
    /\ \E v \in CardValues, at \in {0, 1}, mode \in Modes :
          /\ actual' = v
          /\ pos' = at
          /\ onerror' = mode
          /\ result' = Returned(HeaderCard_validate(card, NewRun, v, at, mode), None)
    /\ pc' = "validated"
    /\ UNCHANGED <<column, value, args, card, classes, hdu, instance, checked>>

NextCard == DefineCard \/ CallCardValidate

SpecCard == InitCard /\ [][NextCard]_vars

----------------------------------------------------------------------------
(* Properties of HeaderCard *)

Validated == pc = "validated"

\* what the claim calls a match of a string value against the declared values
StringMatches(declared, chars, case_insensitive) ==
    \E a \in declared :
        /\ a.t = "str"
        /\ IF case_insensitive THEN upper(a.s) = upper(chars) ELSE a.s = chars

\* C8: a string value of a card with allowed values is accepted iff, when
\* case_insensitive, its upper-cased form equals the upper-cased form of a
\* declared value and, when not, it equals a declared value exactly; a
\* rejected value is reported as WrongValue (in log mode always, in raise
\* mode when no earlier check of the card has raised)
C8_AllowedValueMatching ==
    (/\ Validated /\ ValidMode /\ actual.t = "str"
     /\ args.allowed_values.form # "none" /\ args.empty # "true") =>
        LET accepted == StringMatches(args.allowed_values.vals, actual.s,
                                      args.case_insensitive)
        IN  /\ onerror = "log" =>
                 CountKind(result.findings, "WrongValue") = (IF accepted THEN 0 ELSE 1)
            /\ (/\ onerror = "raise"
                /\ ~HasKind(result.findings, "WrongPosition")
                /\ ~HasKind(result.findings, "WrongType")) =>
                 result.exc = (IF accepted THEN NoExc ELSE "WrongValue")

C8_Witness ==
    /\ Validated /\ onerror = "raise"
    /\ args.allowed_values = ValueSet({PyStr(foo)}) /\ args.case_insensitive
    /\ args.type_ = NoType
    /\ actual = PyStr(Foo)
    /\ result.exc = NoExc /\ result.findings = <<>>

\* C9 (as claimed): a definition with both a type constraint (one type or a
\* collection of types) and allowed values succeeds exactly when every
\* allowed value is an instance of the constraint; with allowed values
\* alone the type constraint becomes the set of their types
C9_TypeAndValues ==
    (pc \in {"defined", "failed"} /\ args.allowed_values.form # "none") =>
        /\ args.type_.form # "none" =>
              (card.exc = NoExc <=>
                  \A v \in args.allowed_values.vals :
                      \E t \in args.type_.types : issubclass(v.t, t))
        /\ (args.type_.form = "none" /\ card.exc = NoExc) =>
              /\ card.type.given
              /\ card.type.types = {v.t : v \in args.allowed_values.vals}

----------------------------------------------------------------------------
(* Ordered mappings: a Python dict as a sequence of entries in insertion    *)
(* order                                                                    *)

Entry(k, v) == [k |-> k, v |-> v]
KeysOf(d) == [i \in 1..Len(d) |-> d[i].k]
KeySet(d) == {d[i].k : i \in 1..Len(d)}
HasKey(d, k) == \E i \in 1..Len(d) : d[i].k = k
Lookup(d, k) == d[CHOOSE i \in 1..Len(d) : d[i].k = k].v

\* a mutant of DictUpdate: a key that exists is moved to the end
DictUpdate_MoveToEnd(d, other) ==
    LET new == KeySet(other)
    IN  SelectSeq(d, LAMBDA e : e.k \notin new) \o other

\* d.update(other), other a dict (no key twice): a key that exists keeps its
\* place and gets the new value, a new key is appended in other's order
DictUpdate(d, other) ==
    LET old == KeySet(d)
        new == KeySet(other)
    IN  [i \in 1..Len(d) |->
            IF d[i].k \in new THEN Entry(d[i].k, Lookup(other, d[i].k)) ELSE d[i]]
        \o SelectSeq(other, LAMBDA e : e.k \notin old)

Reversed(seq) == [i \in 1..Len(seq) |-> seq[Len(seq) + 1 - i]]

\* for d in ds: acc.update(d)
UpdateAll(acc, ds) ==
    LET after[i \in 0..Len(ds)] ==
            IF i = 0 THEN acc ELSE DictUpdate(after[i - 1], ds[i])
    IN  after[Len(ds)]

----------------------------------------------------------------------------
(* header.HeaderSchemaMeta, header.HeaderSchema and BinaryTableHeader *)

\* NAME = HeaderCard(type_=t, required=False)
OptionalCard(stem, t) ==
    HeaderCard(K(stem, <<>>), FALSE, NoValues, NoPosition, OneType(t), "none", TRUE)

\* the members of a class body that are header cards, keyed by v.keyword or k
Declare(c) == Entry(c.keyword, c)

\* HeaderSchemaMeta.__new__(cls, name, bases, dct): bases are the __cards__
\* of the bases that are header schemas, own the cards of the class body
HeaderSchemaMeta_new(bases, own) ==
    DictUpdate(UpdateAll(<<>>, Reversed(bases)), own)

\* the class body of HeaderSchema: the common keywords
HeaderSchemaBody ==
    << Declare(OptionalCard("EXTEND", "bool")),
       Declare(OptionalCard("ORIGIN", "str")),
       Declare(OptionalCard("TELESCOP", "str")),
       Declare(OptionalCard("INSTRUME", "str")),
       Declare(OptionalCard("OBSERVER", "str")),
       Declare(OptionalCard("OBJECT", "str")),
       Declare(OptionalCard("AUTHOR", "str")),
       Declare(OptionalCard("REFERENC", "str")),
       Declare(OptionalCard("COMMENT", "str")),
       Declare(OptionalCard("HISTORY", "str")),
       Declare(OptionalCard("CREATOR", "str")),
       Declare(OptionalCard("PROGRAM", "str")),
       Declare(OptionalCard("DATE", "str")),
       Declare(OptionalCard("DATE-OBS", "str")),
       Declare(OptionalCard("DATE-BEG", "str")),
       Declare(OptionalCard("DATE-AVG", "str")),
       Declare(OptionalCard("DATE-END", "str")),
       Declare(OptionalCard("MJD-OBS", "float")),
       Declare(OptionalCard("MJD-BEG", "float")),
       Declare(OptionalCard("MJD-AVG", "float")),
       Declare(OptionalCard("MJD-END", "float")),
       Declare(OptionalCard("MJDREF", "float")),
       Declare(OptionalCard("MJDREFI", "int")),
       Declare(OptionalCard("MJDREFF", "float")),
       Declare(OptionalCard("JDREF", "float")),
       Declare(OptionalCard("JDREFI", "int")),
       Declare(OptionalCard("JDREFF", "float")),
       Declare(OptionalCard("DATEREF", "float")),
       Declare(OptionalCard("TSTART", "float")),
       Declare(OptionalCard("TSTOP", "float")) >>

\* HeaderSchema.__cards__
HeaderSchema == HeaderSchemaMeta_new(<<>>, HeaderSchemaBody)

\* NAME = HeaderCard(allowed_values=v, position=p)
FixedCard(stem, digits, v, p) ==
    HeaderCard(K(stem, digits), TRUE, OneValue(v), p, NoType, "none", TRUE)

\* NAME = HeaderCard(type_=int, position=p)
IntCard(stem, digits, p) ==
    HeaderCard(K(stem, digits), TRUE, NoValues, p, OneType("int"), "none", TRUE)

BINTABLE == <<"B", "I", "N", "T", "A", "B", "L", "E">>

\* the class body of BinaryTableHeader
BinaryTableHeaderBody ==
    << Declare(FixedCard("XTENSION", <<>>, PyStr(BINTABLE), 0)),
       Declare(FixedCard("BITPIX", <<>>, PyInt(8), 1)),
       Declare(FixedCard("NAXIS", <<>>, PyInt(2), 2)),
       Declare(IntCard("NAXIS", <<1>>, 3)),
       Declare(IntCard("NAXIS", <<2>>, 4)),
       Declare(IntCard("PCOUNT", <<>>, 5)),
       Declare(FixedCard("GCOUNT", <<>>, PyInt(1), 6)),
       Declare(IntCard("TFIELDS", <<>>, 7)),
       Declare(OptionalCard("EXTNAME", "str")) >>

\* BinaryTableHeader.__cards__
BinaryTableHeader == HeaderSchemaMeta_new(<<HeaderSchema>>, BinaryTableHeaderBody)

\* HeaderSchema.update(other_schema), on the two __cards__
HeaderSchema_update(cards, other) == DictUpdate(cards, other)

----------------------------------------------------------------------------
(* binary_table.BinaryTableMeta *)

\* the members of a class body that are columns, keyed by v.name or k
DeclareColumn(c) == Entry(c.name, c)

NoHeader == [given |-> FALSE, cards |-> <<>>]
Header(cards) == [given |-> TRUE, cards |-> cards]

\* BinaryTableMeta.__new__(cls, name, bases, dct): bases are the table
\* classes ([columns, header]) listed as bases, own the columns of the class
\* body, header_schema the __header__ member of the class body
BinaryTableMeta_new(bases, own, header_schema) ==
    LET fresh == HeaderSchemaMeta_new(<<BinaryTableHeader>>, <<>>)
        rev == Reversed(bases)
        inherited == UpdateAll(fresh, [i \in 1..Len(rev) |-> rev[i].header])
        columns0 == UpdateAll(<<>>, [i \in 1..Len(rev) |-> rev[i].columns])
    IN  [columns |-> DictUpdate(columns0, own),
         header |-> IF header_schema.given
                    THEN HeaderSchema_update(inherited, header_schema.cards)
                    ELSE inherited]

\* class BinaryTable(metaclass=BinaryTableMeta)
BinaryTable == BinaryTableMeta_new(<<>>, <<>>, NoHeader)

----------------------------------------------------------------------------
(* SpecMerge: a base schema and a schema derived from it are defined *)

\* keys a class body declares, and the two declarations a key can get
OwnStems == {"FOO", "BAR", "BAZ"}

CardVariant(stem, variant) ==
    CASE variant = 1 ->
            HeaderCard(K(stem, <<>>), TRUE, NoValues, NoPosition, OneType("str"), "none", TRUE)
      [] variant = 2 ->
            HeaderCard(K(stem, <<>>), FALSE, NoValues, NoPosition, OneType("int"), "none", TRUE)
      [] variant = 3 ->
            HeaderCard(K(stem, <<>>), TRUE, OneValue(PyInt(8)), 0, NoType, "none", TRUE)

ColumnVariant(name, variant) ==
    Column(name, "bool", NoUnit, FALSE, variant = 1, NoNdim, NoShape)

\* the class bodies: up to MaxOwn declarations of distinct names, in order
Bodies ==
    UNION { { b \in [1..n -> OwnStems \X {1, 2}] :
                \A i, j \in 1..n : i # j => b[i][1] # b[j][1] }
            : n \in 0..MaxOwn }

CardBody(b) == [i \in 1..Len(b) |-> Declare(CardVariant(b[i][1], b[i][2]))]
ColumnBody(b) == [i \in 1..Len(b) |-> DeclareColumn(ColumnVariant(b[i][1], b[i][2]))]

\* the header sub-definitions a table class body can hold: none,
\* class __header__(HeaderSchema) with TEST = HeaderCard(type_=str), or one
\* that makes TELESCOP required
EmbeddedHeaders ==
    { NoHeader,
      Header(HeaderSchemaMeta_new(<<HeaderSchema>>,
                 <<Declare(HeaderCard(KW_TEST, TRUE, NoValues, NoPosition,
                                      OneType("str"), "none", TRUE))>>)),
      Header(HeaderSchemaMeta_new(<<HeaderSchema>>,
                 <<Declare(HeaderCard(K("TELESCOP", <<>>), TRUE, NoValues, NoPosition,
                                      OneType("str"), "none", TRUE))>>)) }

\* a defined class: what its body declared, its bases (positions in
\* classes, 0 for the root class), and what the metaclass built
HeaderClass(base, own, cards) ==
    [kind |-> "header", base |-> base, own |-> own, cards |-> cards,
     columns |-> <<>>, header |-> <<>>]
TableClass(base, own, built) ==
    [kind |-> "table", base |-> base, own |-> own, cards |-> <<>>,
     columns |-> built.columns, header |-> built.header]

InitMerge ==
    /\ classes = <<>>
    /\ hdu = Idle /\ checked = <<>> /\ instance = Idle
    /\ pc = "base"
    /\ onerror = "raise" /\ column = Idle /\ value = Idle /\ result = NotCalled
    /\ args = Idle /\ card = Idle /\ actual = Idle /\ pos = 0

\* class BaseHeader(HeaderSchema): ...
DefineBaseHeader ==
    /\ pc = "base"
    /\ \E b \in Bodies :
          classes' = Append(classes,
              HeaderClass(0, CardBody(b),
                          HeaderSchemaMeta_new(<<HeaderSchema>>, CardBody(b))))
    /\ pc' = "derive_header"
    /\ UNCHANGED <<onerror, column, value, result, args, card, actual, pos, hdu, instance, checked>>

\* class Header(BaseHeader): ...
DefineDerivedHeader ==
    /\ pc = "derive_header"
    /\ \E b \in Bodies :
          classes' = Append(classes,
              HeaderClass(1, CardBody(b),
                          HeaderSchemaMeta_new(<<classes[1].cards>>, CardBody(b))))
    /\ pc' = "defined"
    /\ UNCHANGED <<onerror, column, value, result, args, card, actual, pos, hdu, instance, checked>>

\* class BaseTable(BinaryTable): ...
DefineBaseTable ==
    /\ pc = "base"
    /\ \E b \in Bodies, h \in EmbeddedHeaders :
          /\ args' = h
          /\ classes' = Append(classes,
              TableClass(0, ColumnBody(b),
                         BinaryTableMeta_new(<<BinaryTable>>, ColumnBody(b), h)))
    /\ pc' = "derive_table"
    /\ UNCHANGED <<onerror, column, value, result, card, actual, pos, hdu, instance, checked>>

\* class TestTable(BaseTable): ...
DefineDerivedTable ==
    /\ pc = "derive_table"
    /\ \E b \in Bodies, h \in EmbeddedHeaders :
          /\ args' = h
          /\ classes' = Append(classes,
              TableClass(1, ColumnBody(b),
                         BinaryTableMeta_new(<<classes[1]>>, ColumnBody(b), h)))
    /\ pc' = "defined"
    /\ UNCHANGED <<onerror, column, value, result, card, actual, pos, hdu, instance, checked>>

NextMerge ==
    \/ DefineBaseHeader
    \/ DefineDerivedHeader
    \/ DefineBaseTable
    \/ DefineDerivedTable

SpecMerge == InitMerge /\ [][NextMerge]_vars

----------------------------------------------------------------------------
(* Properties of the schema composition *)

\* the mapping a single-base derivation is claimed to give
Mapping(c) == IF c.kind = "header" THEN c.cards ELSE c.columns

\* the names of seq that are in keys, in the order of seq
Restrict(seq, keys) == SelectSeq(seq, LAMBDA k : k \in keys)

MergedAsClaimed(merged, base, own) ==
    /\ KeysOf(merged) =
          KeysOf(base) \o Restrict(KeysOf(own), KeySet(own) \ KeySet(base))
    /\ \A k \in KeySet(own) : Lookup(merged, k) = Lookup(own, k)
    /\ \A k \in KeySet(base) \ KeySet(own) : Lookup(merged, k) = Lookup(base, k)

\* C10: the mapping of a schema derived from one base is the base's entries
\* in base order, a re-declared name replaced in place by the derived
\* declaration, then the names only the derived schema declares in their
\* declaration order, for cards and columns alike; after the derivation the
\* base's mapping is still the one built from its own base and body
C10_SingleBaseMerge ==
    (pc = "defined") =>
        /\ MergedAsClaimed(Mapping(classes[2]), Mapping(classes[1]), classes[2].own)
        /\ MergedAsClaimed(Mapping(classes[1]),
                           IF classes[1].kind = "header" THEN HeaderSchema ELSE <<>>,
                           classes[1].own)

\* the base's mapping is never changed by a later definition
C10_BaseUnchanged ==
    [][\A i \in 1..Len(classes) : classes'[i] = classes[i]]_vars

\* test_inheritance: foo, bar and then bar (changed), baz give foo, bar, baz
C10_Witness ==
    /\ pc = "defined"
    /\ classes[2].kind = "table"
    /\ KeysOf(classes[1].columns) = <<"FOO", "BAR">>
    /\ KeysOf(classes[2].own) = <<"BAR", "BAZ">>
    /\ KeysOf(classes[2].columns) = <<"FOO", "BAR", "BAZ">>
    /\ Lookup(classes[2].columns, "BAR") # Lookup(classes[1].columns, "BAR")

----------------------------------------------------------------------------
(* header.HeaderSchema.validate_header *)

IGNORE == {"TTYPE", "TUNIT", "TFORM", "TSCAL", "TZERO", "TDISP", "TDIM"}

\* a card of a file's header
Card(keyword, v) == [keyword |-> keyword, value |-> v]

\* set(header.keys())
HeaderKeys(header) == {header[i].keyword : i \in 1..Len(header)}

\* a mutant of missing_required: the file's header is not looked at
missing_required_Declared(cards, header) ==
    {cards[i].k : i \in {j \in 1..Len(cards) : cards[j].v.required}}

\* required - set(header.keys())
missing_required(cards, header) ==
    {cards[i].k : i \in {j \in 1..Len(cards) : cards[j].v.required}}
        \ HeaderKeys(header)

\* a mutant of is_ignored: the trailing digits are not stripped
is_ignored_NoStrip(kw) == kw.digits = <<>> /\ kw.stem \in IGNORE

\* kw.rstrip('0123456789') in IGNORE
is_ignored(kw) == kw.stem \in IGNORE

\* what was handed to a card schema or a column schema
Checked(src, key, at) == [src |-> src, key |-> key, at |-> at]

\* the walk of a validation: its run, what it handed to a schema, and the
\* number of cards it has been through
Walk(run, seen, at) == [run |-> run, checked |-> seen, pos |-> at]

\* validate_header up to its loop: the test for missing required keywords
check_required_cards(run, cards, header, mode) ==
    LET missing == missing_required(cards, header)
    IN  IF missing # {}
        THEN log_or_raise(run, "RequiredMissing", "header", missing, {}, NoPosition, mode)
        ELSE run

\* one pass of the loop of validate_header, for card number w.pos
validate_header_card(w, cards, header, mode) ==
    LET c == header[w.pos + 1]
        kw == c.keyword
    IN  IF ~HasKey(cards, kw)
        THEN Walk(IF ~is_ignored(kw)
                  THEN log_or_raise(w.run, "AdditionalHeaderCard", "header",
                                    {kw}, {}, w.pos, mode)
                  ELSE w.run,
                  w.checked, w.pos + 1)
        ELSE Walk(HeaderCard_validate(Lookup(cards, kw), w.run, c.value, w.pos, mode),
                  Append(w.checked, Checked("card", kw, w.pos)), w.pos + 1)

\* HeaderSchema.validate_header(header, onerror), continuing the run of its
\* caller: an exception ends the loop
HeaderSchema_validate_header(cards, header, run, mode) ==
    LET after[i \in 0..Len(header)] ==
            IF i = 0
            THEN Walk(check_required_cards(run, cards, header, mode), <<>>, 0)
            ELSE LET w == after[i - 1]
                 IN  IF w.run.exc # NoExc THEN w
                     ELSE validate_header_card(w, cards, header, mode)
    IN  after[Len(header)]

----------------------------------------------------------------------------
(* SpecHeader: validate_header walks the header of a file, card by card *)

MaxCards == 3

\* an HDU of a file: whether it is a BinTableHDU, its header and its columns
HDU(bintable, header, columns) ==
    [bintable |-> bintable, header |-> header, columns |-> columns]

\* the header schemas: HeaderSchema subclasses with up to MaxOwn cards
HeaderBodies ==
    UNION { { b \in [1..n -> {"FOO", "BAR"} \X {1, 2, 3}] :
                \A i, j \in 1..n : i # j => b[i][1] # b[j][1] }
            : n \in 0..MaxOwn }

FileCards ==
    { Card(K("FOO", <<>>), PyStr(foo)), Card(K("FOO", <<>>), PyInt(1)),
      Card(K("BAR", <<>>), PyInt(8)), Card(K("TTYPE", <<1>>), PyStr(foo)),
      Card(K("QUX", <<>>), PyInt(1)) }

Headers == UNION {[1..n -> FileCards] : n \in 0..MaxCards}

InitHeader ==
    /\ onerror \in Modes
    /\ pc = "required"
    /\ \E b \in HeaderBodies :
          classes = <<HeaderClass(0, CardBody(b),
                                  HeaderSchemaMeta_new(<<HeaderSchema>>, CardBody(b)))>>
    /\ \E h \in Headers : hdu = HDU(FALSE, h, <<>>)
    /\ result = NotCalled
    /\ checked = <<>> /\ instance = Idle
    /\ pos = 0
    /\ column = Idle /\ value = Idle /\ args = Idle /\ card = Idle /\ actual = Idle

\* validate_header, up to its loop
CheckRequiredCards ==
    /\ pc = "required"
    /\ result' = check_required_cards(result, classes[1].cards, hdu.header, onerror)
    /\ pc' = IF result'.exc # NoExc \/ hdu.header = <<>> THEN "done" ELSE "cards"
    /\ UNCHANGED <<onerror, column, value, args, card, actual, pos, classes, hdu, instance, checked>>

\* validate_header, one pass of its loop
ValidateNextCard ==
    /\ pc = "cards"
    /\ pos < Len(hdu.header)
    /\ LET w == validate_header_card(Walk(result, checked, pos), classes[1].cards,
                                     hdu.header, onerror)
       IN  /\ result' = w.run
           /\ checked' = w.checked
           /\ pos' = w.pos
           /\ pc' = IF w.run.exc # NoExc \/ w.pos = Len(hdu.header)
                    THEN "done" ELSE "cards"
    /\ UNCHANGED <<onerror, column, value, args, card, actual, classes, hdu, instance>>

NextHeader == CheckRequiredCards \/ ValidateNextCard

SpecHeader == InitHeader /\ [][NextHeader]_vars

----------------------------------------------------------------------------
(* Properties of HeaderSchema.validate_header *)

RequiredChecked == pc \in {"cards", "done"}

\* the required keywords of the schema that no card of the file has
MissingKeywords ==
    { e.k : e \in { classes[1].cards[i] : i \in 1..Len(classes[1].cards) } }
        \ ( { k \in KeySet(classes[1].cards) : ~Lookup(classes[1].cards, k).required }
            \cup { hdu.header[i].keyword : i \in 1..Len(hdu.header) } )

\* C6: when a required keyword is absent from the header, exactly one
\* RequiredMissing finding is reported, it lists all the missing required
\* keywords and it comes before every per-card finding; in raise mode no card
\* is checked after it; when none is missing, no RequiredMissing is reported
C6_RequiredMissingFirst ==
    (RequiredChecked /\ ValidMode) =>
        LET fs == result.findings
        IN  /\ MissingKeywords # {} =>
                  /\ Len(fs) >= 1
                  /\ fs[1].kind = "RequiredMissing"
                  /\ fs[1].keywords = MissingKeywords
                  /\ CountKind(fs, "RequiredMissing") = 1
                  /\ onerror = "raise" =>
                        /\ result.exc = "RequiredMissing"
                        /\ pc = "done" /\ checked = <<>> /\ pos = 0 /\ Len(fs) = 1
            /\ MissingKeywords = {} => ~HasKind(fs, "RequiredMissing")

\* log mode: TEST is missing and a later card has the wrong type
C6_Witness ==
    /\ pc = "done" /\ onerror = "log"
    /\ MissingKeywords # {}
    /\ Len(result.findings) >= 2
    /\ result.findings[1].kind = "RequiredMissing"
    /\ result.findings[2].kind = "WrongType"

\* the reserved set, as the claim lists it
ReservedStems == {"TTYPE", "TUNIT", "TFORM", "TSCAL", "TZERO", "TDISP", "TDIM"}

Undeclared(i) == hdu.header[i].keyword \notin KeySet(classes[1].cards)

\* the findings reported for the card at position at
FindingsAt(at) ==
    {j \in 1..Len(result.findings) : result.findings[j].at = at}

\* C7: a card whose keyword the schema does not declare gets exactly one
\* AdditionalHeaderCard advisory unless its keyword without trailing digits
\* is reserved, and then nothing; it is handed to no card schema; in raise and
\* in log mode the walk goes on to the next card, so the validation ends
\* without an exception only after the last card
C7_UnexpectedCards ==
    ValidMode =>
        /\ \A i \in 1..pos :
              Undeclared(i) =>
                  /\ IF hdu.header[i].keyword.stem \notin ReservedStems
                     THEN /\ Cardinality(FindingsAt(i - 1)) = 1
                          /\ \A j \in FindingsAt(i - 1) :
                                /\ result.findings[j].kind = "AdditionalHeaderCard"
                                /\ result.findings[j].via \in {"warn", "log.warning"}
                     ELSE FindingsAt(i - 1) = {}
                  /\ \A j \in 1..Len(checked) : checked[j].at # i - 1
                  /\ i = pos =>
                        /\ result.exc = NoExc
                        /\ pc = "done" => pos = Len(hdu.header)
        /\ (pc = "done" /\ result.exc = NoExc) => pos = Len(hdu.header)

\* raise mode: an unexpected card, and then the hard failure of a later card
C7_Witness ==
    /\ pc = "done" /\ onerror = "raise"
    /\ Len(hdu.header) >= 2
    /\ Undeclared(1)
    /\ hdu.header[1].keyword.stem \notin ReservedStems
    /\ Kinds(result.findings) = <<"AdditionalHeaderCard", "WrongType">>
    /\ result.exc = "WrongType"

----------------------------------------------------------------------------
(* binary_table.BinaryTable.validate_hdu *)

\* a column of a file's table
FileColumn(name, data) == [name |-> name, data |-> data]

\* set(c.name for c in hdu.columns), and table[k]
FileNames(columns) == {columns[i].name : i \in 1..Len(columns)}
TableColumn(columns, k) ==
    columns[CHOOSE i \in 1..Len(columns) : columns[i].name = k].data

\* a mutant of missing_required_columns: optional columns count as well
missing_required_columns_Declared(columns, file) ==
    {columns[i].v.name : i \in 1..Len(columns)} \ FileNames(file)

\* required - set(c.name for c in hdu.columns)
missing_required_columns(columns, file) ==
    {columns[i].v.name : i \in {j \in 1..Len(columns) : columns[j].v.required}}
        \ FileNames(file)

\* validate_hdu after the header: the test for missing required columns
check_required_columns(run, columns, file, mode) ==
    LET missing == missing_required_columns(columns, file)
    IN  IF missing # {}
        THEN log_or_raise(run, "RequiredMissing", "table", {}, missing, NoPosition, mode)
        ELSE run

\* one pass of the loop of validate_hdu, for declared column number w.pos
validate_hdu_column(w, columns, file, mode) ==
    LET k == columns[w.pos + 1].k
        col == columns[w.pos + 1].v
        r == Column_validate_data(col, TableColumn(file, k), mode)
    IN  IF k \in FileNames(file)
        THEN Walk([w.run EXCEPT !.findings = @ \o r.findings, !.exc = r.exc],
                  Append(w.checked, Checked("column", k, w.pos)), w.pos + 1)
        ELSE Walk(w.run, w.checked, w.pos + 1)

----------------------------------------------------------------------------
(* SpecHdu: validate_hdu validates the header and the table of a file *)

\* the declarations of the table schemas: Double(unit=u.m),
\* Double(unit=u.deg, required=False), Int16(unit=u.m, strict_unit=True)
HduColumnVariant(name, variant) ==
    CASE variant = 1 -> Column(name, "float64", "m", FALSE, TRUE, NoNdim, NoShape)
      [] variant = 2 -> Column(name, "float64", "deg", FALSE, FALSE, NoNdim, NoShape)
      [] variant = 3 -> Column(name, "int16", "m", TRUE, TRUE, NoNdim, NoShape)

HduBodies ==
    UNION { { b \in [1..n -> {<<"energy", 1>>, <<"energy", 2>>, <<"energy", 3>>,
                              <<"ra", 1>>, <<"ra", 2>>}] :
                \A i, j \in 1..n : i # j => b[i][1] # b[j][1] }
            : n \in 0..MaxOwn }

HduColumnBody(b) ==
    [i \in 1..Len(b) |-> DeclareColumn(HduColumnVariant(b[i][1], b[i][2]))]

\* class __header__(HeaderSchema): TEST = HeaderCard(type_=str), or none
HduHeaders ==
    { NoHeader,
      Header(HeaderSchemaMeta_new(<<HeaderSchema>>,
                 <<Declare(HeaderCard(KW_TEST, TRUE, NoValues, NoPosition,
                                      OneType("str"), "none", TRUE))>>)) }

\* the columns a file can hold, as the table reader returns them
FileData ==
    { Val("col", "float64", 157, 50, <<3>>, "m"),
      Val("col", "float64", 157, 50, <<3>>, "deg"),
      Val("col", "int16", 1, 1, <<3, 3>>, "cm") }

Absent == None

FileTables ==
    { SelectSeq(<<FileColumn("energy", f[1]), FileColumn("ra", f[2]),
                  FileColumn("extra", f[3])>>,
                LAMBDA c : c.data # Absent)
      : f \in (FileData \cup {Absent})
                \X {Absent, Val("col", "float64", 157, 50, <<3>>, "m"),
                    Val("col", "float64", 157, 50, <<3>>, "deg")}
                \X {Absent, Val("col", "float64", 157, 50, <<3>>, "deg")} }

\* the cards every BinTableHDU starts with, for a table of n columns
MandatoryCards(n) ==
    << Card(K("XTENSION", <<>>), PyStr(BINTABLE)), Card(K("BITPIX", <<>>), PyInt(8)),
       Card(K("NAXIS", <<>>), PyInt(2)), Card(K("NAXIS", <<1>>), PyInt(24)),
       Card(K("NAXIS", <<2>>), PyInt(3)), Card(K("PCOUNT", <<>>), PyInt(0)),
       Card(K("GCOUNT", <<>>), PyInt(1)), Card(K("TFIELDS", <<>>), PyInt(n)) >>

\* the cards that follow them
MoreCards ==
    { <<>>,
      <<Card(K("TTYPE", <<1>>), PyStr(foo))>>,
      <<Card(KW_TEST, PyStr(foo))>>,
      <<Card(K("QUX", <<>>), PyInt(1)), Card(KW_TEST, PyStr(foo))>> }

InitHdu ==
    /\ onerror \in Modes
    /\ pc = "call"
    /\ \E b \in HduBodies, h \in HduHeaders :
          classes = <<TableClass(0, HduColumnBody(b),
                         BinaryTableMeta_new(<<BinaryTable>>, HduColumnBody(b), h))>>
    /\ \/ \E t \in FileTables, more \in MoreCards :
             hdu = HDU(TRUE, MandatoryCards(Len(t)) \o more, t)
       \/ hdu = HDU(FALSE, <<>>, <<>>)
    /\ result = NotCalled
    /\ checked = <<>> /\ instance = Idle
    /\ pos = 0
    /\ column = Idle /\ value = Idle /\ args = Idle /\ card = Idle /\ actual = Idle

\* validate_hdu up to the columns: the isinstance test, and
\* cls.__header__.validate_header(hdu.header, onerror=onerror)
ValidateHduHeader ==
    /\ pc = "call"
    /\ IF ~hdu.bintable
       THEN /\ result' = [result EXCEPT !.exc = "TypeError"]
            /\ checked' = checked
       ELSE LET w == HeaderSchema_validate_header(classes[1].header, hdu.header,
                                                  result, onerror)
            IN  /\ result' = w.run
                /\ checked' = w.checked
    /\ pc' = IF result'.exc # NoExc THEN "done" ELSE "required_columns"
    /\ UNCHANGED <<onerror, column, value, args, card, actual, pos, classes, hdu, instance>>

\* validate_hdu: the test for missing required columns
CheckRequiredColumns ==
    /\ pc = "required_columns"
    /\ result' = check_required_columns(result, classes[1].columns, hdu.columns, onerror)
    /\ pc' = IF result'.exc # NoExc \/ classes[1].columns = <<>>
             THEN "done" ELSE "columns"
    /\ UNCHANGED <<onerror, column, value, args, card, actual, pos, classes, hdu, instance, checked>>

\* validate_hdu, one pass of its loop over the declared columns
ValidateNextColumn ==
    /\ pc = "columns"
    /\ pos < Len(classes[1].columns)
    /\ LET w == validate_hdu_column(Walk(result, checked, pos), classes[1].columns,
                                    hdu.columns, onerror)
       IN  /\ result' = w.run
           /\ checked' = w.checked
           /\ pos' = w.pos
           /\ pc' = IF w.run.exc # NoExc \/ w.pos = Len(classes[1].columns)
                    THEN "done" ELSE "columns"
    /\ UNCHANGED <<onerror, column, value, args, card, actual, classes, hdu, instance>>

NextHdu == ValidateHduHeader \/ CheckRequiredColumns \/ ValidateNextColumn

SpecHdu == InitHdu /\ [][NextHdu]_vars

----------------------------------------------------------------------------
(* Properties of BinaryTable.validate_hdu *)

\* the part of validate_hdu a finding comes from: 1 the header validation,
\* 2 the test for missing columns, 3 the validation of a column
Phase(f) ==
    CASE f.src \in {"header", "card"} -> 1
      [] f.src = "table" -> 2
      [] f.src = "column" -> 3

Declared == {classes[1].columns[i].k : i \in 1..Len(classes[1].columns)}
Present == {hdu.columns[i].name : i \in 1..Len(hdu.columns)}
DeclaredAt(name) == CHOOSE i \in 1..Len(classes[1].columns) : classes[1].columns[i].k = name
Declaration(name) == classes[1].columns[DeclaredAt(name)].v
FileValue(name) == (CHOOSE c \in {hdu.columns[i] : i \in 1..Len(hdu.columns)} : c.name = name).data

RequiredAbsent == {name \in Declared : Declaration(name).required} \ Present

HeaderFailed == \E i \in 1..Len(result.findings) :
    Phase(result.findings[i]) = 1 /\ result.findings[i].via = "raise"

\* header findings, then missing columns, then column findings, the columns
\* in the order of their declaration
InOrder(fs) ==
    \A i, j \in 1..Len(fs) :
        i < j =>
            /\ Phase(fs[i]) <= Phase(fs[j])
            /\ (Phase(fs[i]) = 3 /\ Phase(fs[j]) = 3) =>
                  \A a \in fs[i].names, b \in fs[j].names : DeclaredAt(a) <= DeclaredAt(b)

\* at most one finding for missing columns, naming the required declared
\* columns the file does not have; it is there when there are any and the
\* header validation did not end the call
MissingColumnsOnce(fs) ==
    LET at == {i \in 1..Len(fs) : Phase(fs[i]) = 2}
    IN  /\ Cardinality(at) <= 1
        /\ \A i \in at :
              /\ fs[i].kind = "RequiredMissing"
              /\ fs[i].names = RequiredAbsent
              /\ RequiredAbsent # {}
        /\ (RequiredAbsent # {} /\ ~HeaderFailed) => at # {}

\* column findings are about declared columns that the file has
OnlyDeclaredPresent(fs) ==
    \A i \in 1..Len(fs) :
        Phase(fs[i]) = 3 => fs[i].names \subseteq (Declared \cap Present)

NoColumnFinding(fs) == \A i \in 1..Len(fs) : Phase(fs[i]) # 3

\* raise mode: a header failure ends the call before any column
HeaderFailureEndsCall(fs) ==
    (onerror = "raise" /\ HeaderFailed) =>
        /\ \A i \in 1..Len(fs) : Phase(fs[i]) = 1
        /\ \A i \in 1..Len(checked) : checked[i].src # "column"

CompatibleUnit(col, v) ==
    col.unit = NoUnit \/ UnitTag(v) = NoUnit \/ SameDimension(UnitTag(v), col.unit)

\* every required column is in the file, with a compatible unit
RequiredColumnsCompatible ==
    \A name \in Declared :
        Declaration(name).required =>
            name \in Present /\ CompatibleUnit(Declaration(name), FileValue(name))

\* every declared column the file has is acceptable in type, rank, shape and
\* unit, the unit being the declared one when the column is strict
PresentColumnsAcceptable ==
    \A name \in Declared \cap Present :
        LET col == Declaration(name)
            v == FileValue(name)
        IN  /\ TypeOk(col, v) /\ RankOk(col, v) /\ ShapeOk(col, v)
            /\ CompatibleUnit(col, v)
            /\ col.strict_unit => UnitTag(v) = col.unit

HduValidated == pc = "done" /\ ValidMode /\ hdu.bintable

\* C1 (as claimed): validate_hdu reports the header findings, then at most
\* one RequiredMissing naming the required declared columns absent from the
\* file, then the findings of the declared columns present; an undeclared
\* file column yields no finding; a file with every required column in a
\* compatible unit yields no column finding; in raise mode a header failure
\* means no column is checked
C1_ValidateHduAsClaimed ==
    HduValidated =>
        /\ InOrder(result.findings)
        /\ MissingColumnsOnce(result.findings)
        /\ OnlyDeclaredPresent(result.findings)
        /\ RequiredColumnsCompatible => NoColumnFinding(result.findings)
        /\ HeaderFailureEndsCall(result.findings)

\* C1 (amended): as claimed, but it is a file whose declared columns are all
\* acceptable in type, rank, shape and unit that yields no column finding
C1_ValidateHdu ==
    HduValidated =>
        /\ InOrder(result.findings)
        /\ MissingColumnsOnce(result.findings)
        /\ OnlyDeclaredPresent(result.findings)
        /\ PresentColumnsAcceptable => NoColumnFinding(result.findings)
        /\ HeaderFailureEndsCall(result.findings)

\* log mode: a header finding, then the missing column, then a column finding
C1_Witness ==
    /\ HduValidated /\ onerror = "log"
    /\ Len(result.findings) = 3
    /\ Phase(result.findings[1]) = 1
    /\ Phase(result.findings[2]) = 2
    /\ result.findings[3].src = "column" /\ result.findings[3].kind = "WrongUnit"
    /\ \E i \in 1..Len(hdu.columns) : hdu.columns[i].name \notin Declared

----------------------------------------------------------------------------
(* SpecLog: a caller makes calls of utils.log_or_raise *)

MaxCalls == 2

\* the exc_type arguments: hard error kinds and the advisory kind
ExcTypes ==
    {"ValueError", "TypeError", "ValidationError", "RequiredMissing",
     "WrongType", "AdditionalHeaderCard"}

Messages == {"Foo", "Bar"}

\* the arguments before the first call: no exception type, no message
NoCall == [exc_type |-> NoExc, msg |-> ""]

InitLog ==
    /\ onerror \in Modes
    /\ pc = "ready"
    /\ result = NotCalled
    /\ args = NoCall
    /\ column = Idle /\ value = Idle /\ card = Idle /\ actual = Idle /\ pos = 0
    /\ classes = <<>>
    /\ hdu = Idle /\ checked = <<>> /\ instance = Idle

\* log_or_raise(msg, exc_type, log=log, onerror=onerror)
CallLogOrRaise ==
    /\ pc = "ready"
    /\ Len(result.findings) < MaxCalls
    /\ \E exc_type \in ExcTypes, msg \in Messages :
          /\ args' = [exc_type |-> exc_type, msg |-> msg]
          /\ result' = log_or_raise(result, exc_type, "caller", {}, {msg},
                                    NoPosition, onerror)
    /\ pc' = IF result'.exc # NoExc THEN "raised" ELSE "ready"
    /\ UNCHANGED <<onerror, column, value, card, actual, pos, classes, hdu, instance, checked>>

NextLog == CallLogOrRaise

SpecLog == InitLog /\ [][NextLog]_vars

----------------------------------------------------------------------------
(* Properties of utils.log_or_raise *)

\* the kinds the claim calls advisory: the UserWarning subclasses
IsAdvisoryKind(kind) == kind = "AdditionalHeaderCard"

\* the record of one message of a kind, made through a channel
Recorded(kind, msg, via) ==
    [kind |-> kind, via |-> via, src |-> "caller", keywords |-> {},
     names |-> {msg}, at |-> NoPosition]

\* C11: in raise mode a hard error kind is raised as an exception of that
\* kind carrying the message and an advisory kind is issued as a warning and
\* the call returns; in log mode the call never raises and records the
\* message once, at ERROR severity for a hard error kind and at WARNING
\* severity for an advisory kind
C11_Dispatch ==
    [][ ValidMode =>
          LET kind == args'.exc_type
              msg == args'.msg
              via == IF onerror = "raise"
                     THEN (IF IsAdvisoryKind(kind) THEN "warn" ELSE "raise")
                     ELSE (IF IsAdvisoryKind(kind) THEN "log.warning" ELSE "log.error")
          IN  /\ result'.findings = Append(result.findings, Recorded(kind, msg, via))
              /\ result'.exc = IF onerror = "raise" /\ ~IsAdvisoryKind(kind)
                               THEN kind ELSE NoExc ]_vars

\* log mode: an error and then an advisory, each recorded once
C11_Witness ==
    /\ onerror = "log" /\ pc = "ready"
    /\ Len(result.findings) = 2
    /\ result.findings[1].via = "log.error"
    /\ result.findings[2].via = "log.warning"
    /\ result.exc = NoExc

----------------------------------------------------------------------------
(* Properties of the mode argument *)

\* C12 (as claimed): Column.validate_data called with a mode other than
\* 'raise' and 'log' ends with the ValueError of an invalid mode, for every
\* column and every value, whether or not the value has a violation
C12_InvalidModeFailsFast ==
    (Done /\ ~ValidMode) => result.exc = "ValueError"


\* C13 (as claimed): in log mode Column.validate_data returns normally for
\* every value, and every violation of the value (wrong type, strictly
\* unequal unit, incompatible unit, wrong rank, wrong shape) is recorded as a
\* finding, whatever the earlier checks found
C13_LogModeNeverAborts ==
    (Done /\ onerror = "log" /\ value # None) =>
        /\ result.exc = NoExc
        /\ ~TypeOk(column, value) => HasKind(result.findings, "WrongType")
        /\ (column.strict_unit /\ value.cont \in {"q", "col"}
                /\ value.unit # column.unit) =>
              HasKind(result.findings, "WrongUnit")
        /\ ~(column.unit = NoUnit \/ UnitTag(value) = NoUnit
                \/ SameDimension(UnitTag(value), column.unit)) =>
              HasKind(result.findings, "WrongUnit")
        /\ ~RankOk(column, value) => HasKind(result.findings, "WrongDims")
        /\ ~ShapeOk(column, value) => HasKind(result.findings, "WrongShape")

----------------------------------------------------------------------------
(* binary_table.BinaryTable instances: the data store behind the columns *)

\* a member of a table class body: the attribute name it is bound to and the
\* column, whose name is the attribute name unless the column overrides it
Member(attr, col) == [attr |-> attr, col |-> col]

\* the class a body of members makes: __columns__ as the metaclass collects
\* them, and the column descriptors the class has as attributes
TableSchema(body) ==
    [columns |-> BinaryTableMeta_new(<<BinaryTable>>,
                     [i \in 1..Len(body) |-> DeclareColumn(body[i].col)],
                     NoHeader).columns,
     attrs |-> [i \in 1..Len(body) |-> Entry(body[i].attr, body[i].col)]]

\* __slots__ of every table class
Slots == {"__data__", "header"}

\* fits.Header()
EmptyHeader == Val("header", "object", 0, 1, <<>>, NoUnit)

\* an instance: its class, the two slots, and whether __data__ is bound
Instance(cls, data, bound, header) ==
    [cls |-> cls, data |-> data, bound |-> bound, header |-> header]

\* d.get(k)
dict_get(d, k) == IF HasKey(d, k) THEN Lookup(d, k) ELSE None

\* Column.__get__(instance): instance.__data__.get(self.name)
Column_get(col, inst) == dict_get(inst.data, col.name)

\* Column.__set__(instance, value): instance.__data__[self.name] = value
Column_set(col, inst, v) ==
    [inst EXCEPT !.data = DictUpdate(@, <<Entry(col.name, v)>>)]

\* Column.__delete__(instance)
Column_delete(col, inst) ==
    [inst EXCEPT !.data = SelectSeq(@, LAMBDA e : e.k # col.name)]

Outcome(inst, exc) == [inst |-> inst, exc |-> exc]

\* a mutant of setattr: any name is stored
setattr_AnyName(inst, name, v) ==
    IF HasKey(inst.cls.attrs, name)
    THEN IF inst.bound
         THEN Outcome(Column_set(Lookup(inst.cls.attrs, name), inst, v), NoExc)
         ELSE Outcome(inst, "AttributeError")
    ELSE IF name = "__data__"
    THEN Outcome([inst EXCEPT !.data = v, !.bound = TRUE], NoExc)
    ELSE IF name = "header"
    THEN Outcome([inst EXCEPT !.header = v], NoExc)
    ELSE Outcome([inst EXCEPT !.data = DictUpdate(@, <<Entry(name, v)>>)], NoExc)

\* setattr(instance, name, v): a column descriptor of the class stores into
\* __data__, which has to be bound; the two slots take any value; the
\* instance has no __dict__, so any other name is an AttributeError
setattr(inst, name, v) ==
    IF HasKey(inst.cls.attrs, name)
    THEN IF inst.bound
         THEN Outcome(Column_set(Lookup(inst.cls.attrs, name), inst, v), NoExc)
         ELSE Outcome(inst, "AttributeError")
    ELSE IF name = "__data__"
    THEN Outcome([inst EXCEPT !.data = v, !.bound = TRUE], NoExc)
    ELSE IF name = "header"
    THEN Outcome([inst EXCEPT !.header = v], NoExc)
    ELSE Outcome(inst, "AttributeError")

\* delattr(instance, name)
delattr(inst, name) ==
    IF HasKey(inst.cls.attrs, name)
    THEN IF inst.bound
         THEN Outcome(Column_delete(Lookup(inst.cls.attrs, name), inst), NoExc)
         ELSE Outcome(inst, "AttributeError")
    ELSE IF name = "__data__"
    THEN IF inst.bound
         THEN Outcome([inst EXCEPT !.data = <<>>, !.bound = FALSE], NoExc)
         ELSE Outcome(inst, "AttributeError")
    ELSE Outcome(inst, "AttributeError")

\* BinaryTable.__init__(self, **column_data)
BinaryTable_init(cls, column_data) ==
    LET after[i \in 0..Len(column_data)] ==
            IF i = 0
            THEN Outcome(Instance(cls, <<>>, TRUE, EmptyHeader), NoExc)
            ELSE LET w == after[i - 1]
                 IN  IF w.exc # NoExc THEN w
                     ELSE setattr(w.inst, column_data[i].k, column_data[i].v)
    IN  after[Len(column_data)]

NoFindings == <<>>
TableRun(inst, exc, findings) ==
    [inst |-> inst, exc |-> exc, findings |-> findings]

\* setattr(self, k, validated) if validated is not None, for the outcome r
\* of the column's validation; an exception of the column ends the call
store_validated(run, k, r) ==
    IF r.exc # NoExc
    THEN TableRun(run.inst, r.exc, run.findings \o r.findings)
    ELSE IF r.ret = None THEN run
    ELSE LET s == setattr(run.inst, k, r.ret)
         IN  TableRun(s.inst, s.exc, run.findings)

\* the body of the loop of BinaryTable.validate_data, for the key k and the
\* column col of __columns__: the column validates what the store holds, in
\* raise mode
validate_data_column(run, k, col) ==
    IF run.exc # NoExc THEN run
    ELSE IF ~run.inst.bound
    THEN TableRun(run.inst, "AttributeError", run.findings)
    ELSE store_validated(run, k,
             Column_validate_data(col, dict_get(run.inst.data, k), "raise"))

RECURSIVE validate_data_from(_, _, _)
validate_data_from(run, cols, i) ==
    IF i > Len(cols) THEN run
    ELSE validate_data_from(validate_data_column(run, cols[i].k, cols[i].v), cols, i + 1)

\* BinaryTable.validate_data(self): the columns in declaration order
BinaryTable_validate_data(inst) ==
    validate_data_from(TableRun(inst, NoExc, NoFindings), inst.cls.columns, 1)

----------------------------------------------------------------------------
(* The table classes and the values of SpecTable *)

\* the columns of the table classes: test = Double(unit=u.m),
\* Double(strict_unit=True), Double(shape=(3, )) and
\* Int16(unit=u.m, required=False); a second, optional column; and a column
\* whose name overrides the attribute name
TestColumns ==
    { Column("test", "float64", "m", FALSE, TRUE, NoNdim, NoShape),
      Column("test", "float64", NoUnit, TRUE, TRUE, NoNdim, NoShape),
      Column("test", "float64", NoUnit, FALSE, TRUE, NoNdim, Shape(<<3>>)),
      Column("test", "int16", "m", FALSE, FALSE, NoNdim, NoShape) }
Energy == Column("energy", "float64", "m", FALSE, FALSE, NoNdim, NoShape)
Renamed == Column("E-MIN", "float64", NoUnit, FALSE, FALSE, NoNdim, NoShape)

TableSchemas ==
    { TableSchema(<<Member("test", c)>>) : c \in TestColumns }
    \cup { TableSchema(<<Member("test", Column("test", "int16", "m", FALSE, FALSE, NoNdim, NoShape)),
                         Member("energy", Energy)>>),
           TableSchema(<<Member("e_min", Renamed)>>) }

\* what is assigned to columns: 1, [1, 1, 1], [5., 5., 5.] * u.cm,
\* 5 * u.deg, a table column of 16 bit integers in cm, None
TableValues ==
    { Val("py", "int64", 1, 1, <<>>, NoUnit),
      Val("py", "int64", 1, 1, <<3>>, NoUnit),
      Val("q", "float64", 5, 1, <<3>>, "cm"),
      Val("q", "float64", 5, 1, <<>>, "deg"),
      Val("col", "int16", 1, 1, <<3>>, "cm"),
      None }

Bar == Val("py", "int64", 1, 1, <<>>, NoUnit)

\* the names a caller assigns and deletes: the attributes of the class, the
\* names of its columns, the slots, and a name that is neither
AttrNames(cls) ==
    KeySet(cls.attrs) \cup KeySet(cls.columns) \cup Slots \cup {"foo"}

\* the values a caller assigns to a name: a dict to __data__
Assignable(name) ==
    CASE name = "__data__" -> {<<>>, <<Entry("foo", Bar)>>}
      [] name = "header" -> {Bar}
      [] OTHER -> TableValues

\* keyword arguments of the constructor: none (no name), one for the name,
\* or the column test and one more for the name
Kwargs(cls, name) ==
    IF name = "" THEN {<<>>}
    ELSE { <<Entry(name, v)>> : v \in Assignable(name) }
         \cup (IF name \in {"test", "__data__"} \/ ~HasKey(cls.attrs, "test")
               THEN {}
               ELSE {<<Entry("test", Bar), Entry(name, Bar)>>})

Op(op, name, v) == [op |-> op, name |-> name, value |-> v]

----------------------------------------------------------------------------
(* SpecTable: an instance is constructed, assigned to, deleted from and *)
(* validated, in any order                                              *)

InitTable ==
    /\ pc = "new"
    /\ instance = Idle
    /\ args = Idle
    /\ result = NotCalled
    /\ onerror = "raise" /\ column = Idle /\ value = Idle
    /\ card = Idle /\ actual = Idle /\ pos = 0
    /\ classes = <<>> /\ hdu = Idle /\ checked = <<>>

\* t = TestTable(**column_data); a constructor that raises leaves no instance
\* to go on with
Construct ==
    /\ pc = "new"
    /\ \E cls \in TableSchemas :
        \E name \in AttrNames(cls) \cup {""} :
        \E column_data \in Kwargs(cls, name) :
          LET o == BinaryTable_init(cls, column_data)
          IN  /\ instance' = o.inst
              /\ args' = Op("__init__", "", column_data)
              /\ result' = [findings |-> NoFindings, exc |-> o.exc, ret |-> None]
              /\ pc' = IF o.exc = NoExc THEN "live" ELSE "failed"
    /\ UNCHANGED <<onerror, column, value, card, actual, pos, classes, hdu, checked>>

\* t.name = v
SetAttr ==
    /\ pc = "live"
    /\ \E name \in AttrNames(instance.cls) :
        \E v \in Assignable(name) :
          LET o == setattr(instance, name, v)
          IN  /\ instance' = o.inst
              /\ args' = Op("setattr", name, v)
              /\ result' = [findings |-> NoFindings, exc |-> o.exc, ret |-> None]
    /\ UNCHANGED <<onerror, pc, column, value, card, actual, pos, classes, hdu, checked>>

\* del t.name
DelAttr ==
    /\ pc = "live"
    /\ \E name \in AttrNames(instance.cls) \ {"header"} :
          LET o == delattr(instance, name)
          IN  /\ instance' = o.inst
              /\ args' = Op("delattr", name, None)
              /\ result' = [findings |-> NoFindings, exc |-> o.exc, ret |-> None]
    /\ UNCHANGED <<onerror, pc, column, value, card, actual, pos, classes, hdu, checked>>

\* t.validate_data()
ValidateData ==
    /\ pc = "live"
    /\ LET o == BinaryTable_validate_data(instance)
       IN  /\ instance' = o.inst
           /\ args' = Op("validate_data", "", None)
           /\ result' = [findings |-> o.findings, exc |-> o.exc, ret |-> None]
    /\ UNCHANGED <<onerror, pc, column, value, card, actual, pos, classes, hdu, checked>>

NextTable ==
    \/ Construct
    \/ SetAttr
    \/ DelAttr
    \/ ValidateData

SpecTable == InitTable /\ [][NextTable]_vars

----------------------------------------------------------------------------
(* Properties of table instances *)

\* the last operation on the instance was a validate_data that succeeded
JustValidated ==
    pc = "live" /\ args.op = "validate_data" /\ result.exc = NoExc

\* C14 (as claimed): when validate_data has succeeded on an instance,
\* running validate_data again on it produces no finding, raises nothing and
\* leaves every stored value unchanged
C14_Idempotent ==
    [][ (JustValidated /\ args'.op = "validate_data") =>
            /\ result'.exc = NoExc
            /\ result'.findings = NoFindings
            /\ instance'.data = instance.data ]_vars


\* the names a table class declares, the attributes its columns are bound
\* to, and the names in the data store of the instance
DeclaredNames(inst) == KeySet(inst.cls.columns)
ColumnAttrs(inst) == KeySet(inst.cls.attrs)
StoreNames(inst) == KeySet(inst.data)
StoreDeclared == instance.bound /\ StoreNames(instance) \subseteq DeclaredNames(instance)

\* the operation a step performs, and whether it rebinds or unbinds the
\* slot __data__ itself
Assigns(name) == args'.op = "setattr" /\ args'.name = name
Deletes(name) == args'.op = "delattr" /\ args'.name = name
Constructs == args'.op = "__init__"
RebindsStore ==
    \/ Assigns("__data__") \/ Deletes("__data__")
    \/ Constructs /\ HasKey(args'.value, "__data__")

\* C15 (as claimed): the names in the data store are always declared column
\* names; assigning to any name that is not a declared column, in the
\* constructor or later, fails with AttributeError and leaves the data store
\* unchanged; assigning to a declared name stores the raw value; deleting a
\* declared column makes its value absent
C15_TableInvariantAsClaimed ==
    [][ /\ StoreNames(instance') \subseteq DeclaredNames(instance')
        /\ \A name \in AttrNames(instance'.cls) \ DeclaredNames(instance') :
              /\ (pc = "live" /\ Assigns(name)) =>
                    result'.exc = "AttributeError" /\ instance'.data = instance.data
              /\ (Constructs /\ HasKey(args'.value, name)) =>
                    result'.exc = "AttributeError"
        /\ \A name \in DeclaredNames(instance') :
              /\ (pc = "live" /\ Assigns(name)) =>
                    /\ result'.exc = NoExc
                    /\ dict_get(instance'.data, name) = args'.value
              /\ (pc = "live" /\ Deletes(name)) =>
                    /\ result'.exc = NoExc
                    /\ name \notin StoreNames(instance') ]_vars

\* C15: as long as the slot __data__ is not itself assigned or deleted, the
\* names in the data store are declared column names. Assigning to a name
\* that is neither an attribute bound to a column nor one of the two slots
\* (header, __data__) fails with AttributeError, in the constructor or
\* later, and leaves the data store unchanged; assigning to header succeeds
\* and leaves the data store unchanged; assigning to the attribute of a
\* column stores the raw value under the column's name and changes no other
\* entry; deleting it makes the column absent
C15_TableInvariant ==
    [][ /\ (~RebindsStore /\ (pc = "new" \/ StoreDeclared)) =>
              /\ instance'.bound
              /\ StoreNames(instance') \subseteq DeclaredNames(instance')
        /\ \A name \in AttrNames(instance'.cls) \ (ColumnAttrs(instance') \cup Slots) :
              /\ (pc = "live" /\ Assigns(name)) =>
                    result'.exc = "AttributeError" /\ instance' = instance
              /\ (Constructs /\ HasKey(args'.value, name)) =>
                    result'.exc = "AttributeError" /\ pc' = "failed"
        /\ (pc = "live" /\ Assigns("header")) =>
              /\ result'.exc = NoExc
              /\ instance'.data = instance.data
              /\ instance'.header = args'.value
        /\ \A name \in ColumnAttrs(instance') :
              LET col == Lookup(instance'.cls.attrs, name)
              IN  /\ (pc = "live" /\ instance.bound /\ Assigns(name)) =>
                        /\ result'.exc = NoExc
                        /\ HasKey(instance'.data, col.name)
                        /\ Lookup(instance'.data, col.name) = args'.value
                        /\ \A other \in StoreNames(instance) \ {col.name} :
                              dict_get(instance'.data, other) = dict_get(instance.data, other)
                        /\ StoreNames(instance') = StoreNames(instance) \cup {col.name}
                  /\ (pc = "live" /\ instance.bound /\ Deletes(name)) =>
                        /\ result'.exc = NoExc
                        /\ StoreNames(instance') = StoreNames(instance) \ {col.name}
                        /\ Column_get(col, instance') = None ]_vars

\* an assignment to a name the class does not have has just failed on an
\* instance that holds a raw value and whose header was assigned before
C15_Witness ==
    /\ pc = "live"
    /\ args.op = "setattr" /\ args.name = "foo"
    /\ result.exc = "AttributeError"
    /\ instance.header # EmptyHeader
    /\ \E i \in 1..Len(instance.data) : instance.data[i].v.cont = "py"

----------------------------------------------------------------------------
(* Properties of the order of the checks of Column.validate_data *)

\* the failure of the earliest failing step in the claimed order: type,
\* strict unit inequality, unit compatibility, rank, row shape
EarliestFailure(col, v) ==
    IF ~TypeOk(col, v) THEN "WrongType"
    ELSE IF col.strict_unit /\ UnitTag(v) # NoUnit /\ UnitTag(v) # col.unit
    THEN "WrongUnit"
    ELSE IF ~(col.unit = NoUnit \/ UnitTag(v) = NoUnit
                \/ SameDimension(UnitTag(v), col.unit))
    THEN "WrongUnit"
    ELSE IF ~RankOk(col, v) THEN "WrongDims"
    ELSE IF ~ShapeOk(col, v) THEN "WrongShape"
    ELSE NoExc

\* C16 (as claimed): in raise mode Column.validate_data raises the failure
\* of the earliest failing step in the order type, strict unit, unit
\* compatibility, rank, row shape; a value with an incompatible unit and a
\* wrong rank raises WrongUnit
C16_RaiseOrder ==
    (Done /\ onerror = "raise" /\ value # None
        /\ ~(value.cont = "col" /\ value.unit = NoUnit)) =>
        result.exc = EarliestFailure(column, value)

----------------------------------------------------------------------------
(* Classes with several bases: what type.__new__ does with the bases *)

\* a class of a hierarchy: its kind, its bases and its method resolution
\* order (positions in classes, 0 for the root class HeaderSchema or
\* BinaryTable), what its body declared and what the metaclass built
SchemaClass(kind, bases, mro, own, cards, columns, header) ==
    [kind |-> kind, base |-> bases, mro |-> mro, own |-> own,
     cards |-> cards, columns |-> columns, header |-> header]

\* cls.__mro__, without object
MroOf(cs, i) == IF i = 0 THEN <<0>> ELSE cs[i].mro

Elements(seq) == {seq[i] : i \in 1..Len(seq)}

\* issubclass(cs[i], cs[j])
IsSubclass(cs, i, j) == j \in Elements(MroOf(cs, i))

NoMro == [ok |-> FALSE, order |-> <<>>]

\* the merge of the C3 linearization: the first head that is in no tail is
\* taken, until the lists are empty; no such head is a TypeError
RECURSIVE c3_merge(_)
c3_merge(lists) ==
    LET rest == SelectSeq(lists, LAMBDA l : Len(l) > 0)
        good == {i \in 1..Len(rest) :
                    \A j \in 1..Len(rest) : Head(rest[i]) \notin Elements(Tail(rest[j]))}
    IN  IF Len(rest) = 0 THEN [ok |-> TRUE, order |-> <<>>]
        ELSE IF good = {} THEN NoMro
        ELSE LET i == CHOOSE k \in good : \A l \in good : k <= l
                 h == Head(rest[i])
                 more == c3_merge([j \in 1..Len(rest) |->
                                      SelectSeq(rest[j], LAMBDA x : x # h)])
             IN  IF more.ok THEN [ok |-> TRUE, order |-> <<h>> \o more.order]
                 ELSE NoMro

\* the method resolution order type.__new__ computes for a new class with
\* these bases
mro(cs, bases) ==
    LET m == c3_merge([i \in 1..Len(bases) |-> MroOf(cs, bases[i])] \o <<bases>>)
    IN  IF m.ok THEN [ok |-> TRUE, order |-> <<Len(cs) + 1>> \o m.order]
        ELSE NoMro

Conflict == -1

\* the base whose instance layout the new class extends: every table class
\* adds slots of its own, so the bases have to lie on one line of descent;
\* header classes add none
best_base(cs, kind, bases) ==
    LET winner[i \in 1..Len(bases)] ==
            IF i = 1 THEN bases[1]
            ELSE LET w == winner[i - 1]
                 IN  IF w = Conflict THEN Conflict
                     ELSE IF IsSubclass(cs, w, bases[i]) THEN w
                     ELSE IF IsSubclass(cs, bases[i], w) THEN bases[i]
                     ELSE Conflict
    IN  IF kind = "header" THEN 0 ELSE winner[Len(bases)]

\* super().__new__(cls, name, bases, dct): TypeError for bases without a
\* consistent order or with conflicting layouts
type_new(cs, kind, bases) ==
    IF best_base(cs, kind, bases) = Conflict THEN NoMro ELSE mro(cs, bases)

\* the mappings of the bases, as the metaclass reads them
CardsOf(cs, i) == IF i = 0 THEN HeaderSchema ELSE cs[i].cards
TableOf(cs, i) == IF i = 0 THEN BinaryTable ELSE [columns |-> cs[i].columns, header |-> cs[i].header]

----------------------------------------------------------------------------
(* SpecBases: four class statements of one kind, each with any of the *)
(* classes defined before it as bases                                 *)

\* the bases of a class statement: the root class, or one or two of the n
\* classes defined so far
BaseLists(n) ==
    {<<0>>} \cup {<<i>> : i \in 1..n}
    \cup {p \in (1..n) \X (1..n) : p[1] # p[2]}

\* the class bodies: nothing, FOO in two variants, and for a header schema
\* the common keyword TELESCOP made required
BaseBodies(kind) ==
    {<<>>, << <<"FOO", 1>> >>, << <<"FOO", 2>> >>}
    \cup (IF kind = "header" THEN {<< <<"TELESCOP", 1>> >>} ELSE {})

Statements == <<"first", "second", "third", "fourth", "defined">>
After(label) == Statements[1 + CHOOSE i \in 1..4 : Statements[i] = label]

InitBases ==
    /\ classes = <<>>
    /\ pc = "first"
    /\ result = NotCalled
    /\ hdu = Idle /\ checked = <<>> /\ instance = Idle
    /\ onerror = "raise" /\ column = Idle /\ value = Idle
    /\ args = Idle /\ card = Idle /\ actual = Idle /\ pos = 0

\* class Name(Base, ...): ... for a header schema
DefineHeaderClass ==
    /\ pc \in {"first", "second", "third", "fourth"}
    /\ \A i \in 1..Len(classes) : classes[i].kind = "header"
    /\ \E bases \in BaseLists(Len(classes)), b \in BaseBodies("header") :
          LET t == type_new(classes, "header", bases)
              cards == HeaderSchemaMeta_new(
                           [i \in 1..Len(bases) |-> CardsOf(classes, bases[i])],
                           CardBody(b))
          IN  IF t.ok
              THEN /\ classes' = Append(classes,
                          SchemaClass("header", bases, t.order, CardBody(b),
                                      cards, <<>>, <<>>))
                   /\ pc' = After(pc)
                   /\ result' = result
              ELSE /\ classes' = classes
                   /\ pc' = "failed"
                   /\ result' = [result EXCEPT !.exc = "TypeError"]
    /\ UNCHANGED <<onerror, column, value, args, card, actual, pos, hdu, instance, checked>>

\* class Name(Base, ...): ... for a table schema
DefineTableClass ==
    /\ pc \in {"first", "second", "third", "fourth"}
    /\ \A i \in 1..Len(classes) : classes[i].kind = "table"
    /\ \E bases \in BaseLists(Len(classes)), b \in BaseBodies("table") :
          LET t == type_new(classes, "table", bases)
              built == BinaryTableMeta_new(
                           [i \in 1..Len(bases) |-> TableOf(classes, bases[i])],
                           ColumnBody(b), NoHeader)
          IN  IF t.ok
              THEN /\ classes' = Append(classes,
                          SchemaClass("table", bases, t.order, ColumnBody(b),
                                      <<>>, built.columns, built.header))
                   /\ pc' = After(pc)
                   /\ result' = result
              ELSE /\ classes' = classes
                   /\ pc' = "failed"
                   /\ result' = [result EXCEPT !.exc = "TypeError"]
    /\ UNCHANGED <<onerror, column, value, args, card, actual, pos, hdu, instance, checked>>

NextBases ==
    \/ DefineHeaderClass
    \/ DefineTableClass

SpecBases == InitBases /\ [][NextBases]_vars

----------------------------------------------------------------------------
(* Properties of classes with several bases *)

\* what the body of a class of the hierarchy declares
OwnOf(cs, i) ==
    IF i # 0 THEN cs[i].own
    ELSE IF \E k \in 1..Len(cs) : cs[k].kind = "header" THEN HeaderSchemaBody
    ELSE <<>>

\* the declaration attribute lookup finds for a name: that of the first
\* class in the method resolution order whose body declares it
Declares(cs, c, name) == \E i \in 1..Len(c.mro) : HasKey(OwnOf(cs, c.mro[i]), name)
MostSpecific(cs, c, name) ==
    LET first == CHOOSE i \in 1..Len(c.mro) :
                    /\ HasKey(OwnOf(cs, c.mro[i]), name)
                    /\ \A j \in 1..(i - 1) : ~HasKey(OwnOf(cs, c.mro[j]), name)
    IN  Lookup(OwnOf(cs, c.mro[first]), name)

\* C17 (as claimed): the merged mapping of every class, whatever its bases,
\* has exactly the names declared along its method resolution order and
\* binds each to its most specific declaration, the one attribute lookup
\* finds
C17_MostSpecificWins ==
    \A k \in 1..Len(classes) :
        LET c == classes[k]
            merged == Mapping(c)
        IN  /\ \A i \in 1..Len(merged) : Declares(classes, c, merged[i].k)
            /\ \A i \in 1..Len(c.mro) :
                  KeySet(OwnOf(classes, c.mro[i])) \subseteq KeySet(merged)
            /\ \A i \in 1..Len(merged) :
                  merged[i].v = MostSpecific(classes, c, merged[i].k)

----------------------------------------------------------------------------
(* Properties of the header schema of a derived table *)

MandatoryKeys ==
    { K("XTENSION", <<>>), K("BITPIX", <<>>), K("NAXIS", <<>>), K("NAXIS", <<1>>),
      K("NAXIS", <<2>>), K("PCOUNT", <<>>), K("GCOUNT", <<>>), K("TFIELDS", <<>>) }

\* the keywords an embedded header sub-definition itself declares: those it
\* does not have from HeaderSchema
OwnKeywords(h) ==
    IF ~h.given THEN {}
    ELSE {k \in KeySet(h.cards) :
            ~HasKey(HeaderSchema, k) \/ Lookup(h.cards, k) # Lookup(HeaderSchema, k)}

\* C18 (as claimed): the header schema of a table derived from a base table
\* has the mandatory binary-table cards and every card of the base table's
\* header schema with the base's constraint, except exactly the keywords
\* the embedded header of the derived table itself declares, which have
\* the embedded declaration
C18_DerivedTableHeader ==
    (pc = "defined" /\ classes[2].kind = "table") =>
        LET base == classes[1].header
            derived == classes[2].header
            own == OwnKeywords(args)
        IN  /\ MandatoryKeys \subseteq KeySet(derived)
            /\ KeySet(derived) = KeySet(base) \cup own
            /\ \A k \in KeySet(base) \ own : Lookup(derived, k) = Lookup(base, k)
            /\ \A k \in own : Lookup(derived, k) = Lookup(args.cards, k)

============================================================================
